---- MODULE Spec2Model ----
(***************************************************************************)
(* Model of the serverless-log-forwarding plugin (src/index.js).           *)
(*                                                                         *)
(* Encoding of JavaScript values:                                          *)
(*   - a string is a sequence of tokens; function names are sequences of   *)
(*     single characters, so that replace/upperFirst act on characters;    *)
(*   - a nullable value is Undefined (<<>>) or Some(v) (<<v>>); null and   *)
(*     undefined are not distinguished (the code tests them with == null   *)
(*     or with truthiness, which treat both alike);                        *)
(*   - an object used as a dictionary is a TLA+ function from keys.        *)
(***************************************************************************)
EXTENDS Integers, Sequences, FiniteSets, TLC

VARIABLES conf,         \* this.conf: service.custom.logForwarding
          options,      \* this.options (CLI options)
          provider,     \* service.provider
          functions,    \* service.functions, as the ordered list of its entries
          resources,    \* service.resources
          targets,      \* the local `functions` of createResourcesObj after line 71
          resourceObj,  \* the value createResourcesObj returned
          log,          \* messages passed to serverless.cli.log
          pc            \* "ready" before the hook, then how updateResources ended

vars == <<conf, options, provider, functions, resources, targets, resourceObj, log, pc>>

----------------------------------------------------------------------------
(* Bounds and input pools *)

MaxFns == 3

Undefined == <<>>
Some(v) == <<v>>
EmptyString == <<>>

fnA == <<"f", "n", "A">>
FnA == <<"F", "n", "A">>
fnMinusB == <<"f", "n", "-", "B">>
fnC == <<"f", "n", "C">>

FunctionNamePool == {fnA, FnA, fnMinusB, fnC}

ArnDest == <<"arn:aws:lambda:us-east-1:123:function:dest">>

ArnPool == {Undefined, Some(EmptyString), Some(ArnDest), Some(fnA)}

DestinationFnPool == {Undefined, Some(EmptyString)} \cup {Some(n) : n \in FunctionNamePool}

FilterPatternPool == {Undefined, Some(<<"ERROR">>)}

dev == <<"dev">>
prod == <<"prod">>

OptionStagePool == {Undefined, Some(EmptyString), Some(prod)}

StagesPool == {Undefined, Some(<<>>), Some(<<dev>>)}

Region == <<"us-east-1">>

----------------------------------------------------------------------------
(* JavaScript helpers *)

\* truthiness of a nullable string: null, undefined and '' are falsy
Truthy(v) == v # Undefined /\ v[1] # EmptyString

\* a || b on nullable strings
Or(a, b) == IF Truthy(a) THEN a ELSE b

EmptyObj == [k \in {} |-> TRUE]

ExtendDefaults(dst, src) ==
  [k \in (DOMAIN dst) \cup (DOMAIN src) |->
     IF k \in DOMAIN dst THEN dst[k] ELSE src[k]]

\* _.extend(dst, src): every key of src is set on dst
Extend(dst, src) ==
  [k \in (DOMAIN dst) \cup (DOMAIN src) |->
     IF k \in DOMAIN src THEN src[k] ELSE dst[k]]

\* Array.prototype.indexOf, 0-based, -1 when absent
indexOf(arr, x) ==
  IF \E i \in 1..Len(arr) : arr[i] = x
  THEN (CHOOSE i \in 1..Len(arr) :
          arr[i] = x /\ \A j \in 1..(i - 1) : arr[j] # x) - 1
  ELSE -1

\* _.keys(service.functions): the keys in the object's own order
keys(fns) == [i \in 1..Len(fns) |-> fns[i].key]

\* Array.prototype.filter(name => name !== x)
RECURSIVE filterNot(_, _)
filterNot(names, x) ==
  IF names = <<>> THEN <<>>
  ELSE IF Some(Head(names)) # x
       THEN <<Head(names)>> \o filterNot(Tail(names), x)
       ELSE filterNot(Tail(names), x)

----------------------------------------------------------------------------
(* The host's naming collaborator (this.provider.naming) and getFunction *)

LowerChars == <<"a", "b", "c", "d", "e", "f", "g", "h", "i", "j", "k", "l", "m",
                "n", "o", "p", "q", "r", "s", "t", "u", "v", "w", "x", "y", "z">>
UpperChars == <<"A", "B", "C", "D", "E", "F", "G", "H", "I", "J", "K", "L", "M",
                "N", "O", "P", "Q", "R", "S", "T", "U", "V", "W", "X", "Y", "Z">>

toUpperChar(c) ==
  IF \E i \in 1..Len(LowerChars) : LowerChars[i] = c
  THEN UpperChars[CHOOSE i \in 1..Len(LowerChars) : LowerChars[i] = c]
  ELSE c

upperFirst(s) == IF s = <<>> THEN s ELSE <<toUpperChar(Head(s))>> \o Tail(s)

\* String.prototype.replace(/c/g, rep)
RECURSIVE replaceAll(_, _, _)
replaceAll(s, c, rep) ==
  IF s = <<>> THEN <<>>
  ELSE (IF Head(s) = c THEN rep ELSE <<Head(s)>>) \o replaceAll(Tail(s), c, rep)

getNormalizedFunctionName(functionName) ==
  upperFirst(replaceAll(replaceAll(functionName, "-", <<"D", "a", "s", "h">>),
                        "_", <<"U", "n", "d", "e", "r", "s", "c", "o", "r", "e">>))

getLambdaLogicalId(functionName) ==
  getNormalizedFunctionName(functionName) \o <<"LambdaFunction">>

getLogGroupLogicalId(functionName) ==
  getNormalizedFunctionName(functionName) \o <<"LogGroup">>

getLogGroupName(name) == <<"/aws/lambda/">> \o name

\* service.getFunction(functionName)
getFunction(fns, functionName) ==
  fns[CHOOSE i \in 1..Len(fns) : fns[i].key = functionName].obj

----------------------------------------------------------------------------
(* updateResources, lines 24-35: the stage gate *)

CurrentStageProviderOnly(opts, prov) == prov.stage

CurrentStage(opts, prov) ==
  IF Truthy(opts.stage) /\ Len(opts.stage[1]) > 0
  THEN opts.stage[1]
  ELSE prov.stage

StageIgnored(cnf, stage) ==
  /\ cnf.stages # Undefined
  /\ indexOf(cnf.stages[1], stage) = -1

----------------------------------------------------------------------------
(* createResourcesObj, lines 55-99 *)

PermissionKey == <<"LogForwardingLambdaPermission">>

ConfigMissingTypo(cnf) ==
  cnf.destinationARN = Undefined /\ cnf.destinationFn # Undefined

\* line 59: conf.destinationARN == null && conf.destinationFn == null
ConfigMissing(cnf) ==
  cnf.destinationARN = Undefined /\ cnf.destinationFn = Undefined

TargetsUnfiltered(fns, destinationFnName) == keys(fns)

\* lines 67-71
Targets(fns, destinationFnName) ==
  IF Truthy(destinationFnName)
  THEN filterNot(keys(fns), destinationFnName)
  ELSE keys(fns)

PermissionNoDependsOn(arn, destinationFnName, prov) ==
  [Type |-> "AWS::Lambda::Permission",
   Properties |-> [FunctionName |-> Or(arn, destinationFnName),
                   Action |-> "lambda:InvokeFunction",
                   Principal |-> <<"logs.">> \o prov.region \o <<".amazonaws.com">>]]

\* lines 73-91: the single permission, with DependsOn for an internal destination
Permission(arn, destinationFnName, prov) ==
  LET base == [Type |-> "AWS::Lambda::Permission",
               Properties |-> [FunctionName |-> Or(arn, destinationFnName),
                               Action |-> "lambda:InvokeFunction",
                               Principal |-> <<"logs.">> \o prov.region \o <<".amazonaws.com">>]]
  IN IF Truthy(destinationFnName)
     THEN [Type |-> base.Type,
           Properties |-> base.Properties,
           DependsOn |-> <<getLambdaLogicalId(destinationFnName[1])>>]
     ELSE base

SubscriptionFilterId(functionName) ==
  <<"SubscriptionFilter">> \o getNormalizedFunctionName(functionName)

makeSubscriptionFilterOwnLambda(fns, arn, functionName, filterPattern) ==
  SubscriptionFilterId(functionName) :>
    [Type |-> "AWS::Logs::SubscriptionFilter",
     Properties |-> [DestinationArn |-> arn,
                     FilterPattern |-> filterPattern,
                     LogGroupName |-> getLogGroupName(getFunction(fns, functionName).name)],
     DependsOn |-> <<PermissionKey, getLambdaLogicalId(functionName)>>]

\* lines 109-128
makeSubscriptionFilter(fns, arn, functionName, filterPattern) ==
  SubscriptionFilterId(functionName) :>
    [Type |-> "AWS::Logs::SubscriptionFilter",
     Properties |-> [DestinationArn |-> arn,
                     FilterPattern |-> filterPattern,
                     LogGroupName |-> getLogGroupName(getFunction(fns, functionName).name)],
     DependsOn |-> <<PermissionKey, getLogGroupLogicalId(functionName)>>]

RECURSIVE emitFrom(_, _, _, _, _, _)
emitFrom(obj, fns, arn, fnNames, filterPattern, i) ==
  IF i > Len(fnNames) THEN obj
  ELSE emitFrom(Extend(obj, makeSubscriptionFilter(fns, arn, fnNames[i], filterPattern)),
                fns, arn, fnNames, filterPattern, i + 1)

emitSubscriptionFiltersSkipFirst(obj, fns, arn, fnNames, filterPattern) ==
  emitFrom(obj, fns, arn, fnNames, filterPattern, 2)

emitSubscriptionFiltersReplace(obj, fns, arn, fnNames, filterPattern) ==
  IF fnNames = <<>> THEN obj
  ELSE makeSubscriptionFilter(fns, arn, fnNames[Len(fnNames)], filterPattern)

\* lines 93-97: the per-function loop, i = 0 .. functions.length - 1
emitSubscriptionFilters(obj, fns, arn, fnNames, filterPattern) ==
  emitFrom(obj, fns, arn, fnNames, filterPattern, 1)

\* the value createResourcesObj returns when it does not throw
createResourcesObj(cnf, fns, prov) ==
  LET filterPattern == IF Truthy(cnf.filterPattern) THEN cnf.filterPattern[1] ELSE EmptyString
      arn == cnf.destinationARN
      destinationFnName == cnf.destinationFn
      fnNames == Targets(fns, destinationFnName)
      obj == PermissionKey :> Permission(arn, destinationFnName, prov)
  IN emitSubscriptionFilters(obj, fns, arn, fnNames, filterPattern)

----------------------------------------------------------------------------
(* updateResources, lines 37-47: initialise the namespace and merge *)

InitResourcesKeepUndefined(res) == res

\* lines 39-45
InitResources(res) ==
  IF res = Undefined
  THEN Some([Resources |-> Some(EmptyObj)])
  ELSE IF res[1].Resources = Undefined
       THEN Some([r \in DOMAIN res[1] |->
                    IF r = "Resources" THEN Some(EmptyObj) ELSE res[1][r]])
       ELSE res

\* line 46
MergeResources(res, obj) ==
  Some([r \in DOMAIN res[1] |->
          IF r = "Resources" THEN Some(Extend(res[1].Resources[1], obj))
          ELSE res[1][r]])

----------------------------------------------------------------------------
(* Initial states: the host's service description before the hook fires *)

RECURSIVE DistinctSeqs(_, _)
DistinctSeqs(S, n) ==
  IF n = 0 THEN {<<>>}
  ELSE LET shorter == DistinctSeqs(S, n - 1)
       IN shorter \cup
          {Append(s, x) : <<s, x>> \in
             {p \in shorter \X S : \A i \in 1..Len(p[1]) : p[1][i] # p[2]}}

\* a function the host registers under `key` is deployed as <service>-<stage>-<key>
FunctionEntry(key) == [key |-> key, obj |-> [name |-> <<"svc-dev-">> \o key]]

Catalogs ==
  {[i \in 1..Len(ks) |-> FunctionEntry(ks[i])] : ks \in DistinctSeqs(FunctionNamePool, MaxFns)}

Bucket == [Type |-> "AWS::S3::Bucket"]
StalePermission == [Type |-> "AWS::Lambda::Permission", Properties |-> [FunctionName |-> Some(<<"old">>)]]
StaleFilter == [Type |-> "AWS::Logs::SubscriptionFilter", Properties |-> [DestinationArn |-> Some(<<"old">>)]]

HostResourcePool ==
  { <<"MyBucket">> :> Bucket,
    (<<"MyBucket">> :> Bucket) @@ (PermissionKey :> StalePermission)
       @@ (SubscriptionFilterId(fnA) :> StaleFilter) }

ResourcesPool ==
  {Undefined, Some([Resources |-> Undefined, Outputs |-> "outputs"])}
  \cup {Some([Resources |-> Some(r), Outputs |-> "outputs"]) : r \in HostResourcePool}

Init ==
  /\ conf \in [destinationARN : ArnPool,
               destinationFn : DestinationFnPool,
               filterPattern : FilterPatternPool,
               stages : StagesPool]
  /\ options \in [stage : OptionStagePool]
  /\ provider = [stage |-> dev, region |-> Region]
  /\ functions \in Catalogs
  /\ resources \in ResourcesPool
  /\ targets = Undefined
  /\ resourceObj = Undefined
  /\ log = <<>>
  /\ pc = "ready"

----------------------------------------------------------------------------
(* The 'package:initialize' hook: updateResources, lines 24-48 *)

UpdateResources ==
  /\ pc = "ready"
  /\ LET stage == CurrentStage(options, provider) IN
     IF StageIgnored(conf, stage)
     THEN /\ log' = Append(log, <<"Log Forwarding is ignored for ">> \o stage \o <<" stage">>)
          /\ pc' = "skipped"
          /\ UNCHANGED <<resources, targets, resourceObj>>
     ELSE IF ConfigMissing(conf)
     THEN /\ log' = Append(log, <<"Updating Log Forwarding Resources...">>)
          /\ pc' = "threw"
          /\ UNCHANGED <<resources, targets, resourceObj>>
     ELSE LET obj == createResourcesObj(conf, functions, provider) IN
          /\ targets' = Some(Targets(functions, conf.destinationFn))
          /\ resourceObj' = Some(obj)
          /\ resources' = MergeResources(InitResources(resources), obj)
          /\ log' = log \o << <<"Updating Log Forwarding Resources...">>,
                              <<"Log Forwarding Resources Updated">> >>
          /\ pc' = "updated"
  /\ UNCHANGED <<conf, options, provider, functions>>

Next == UpdateResources

Spec == Init /\ [][Next]_vars

----------------------------------------------------------------------------
(* Vocabulary of the properties *)

arn == conf.destinationARN
destinationFn == conf.destinationFn

Updated == pc = "updated"
Produced == resourceObj[1]
CatalogNames == {functions[i].key : i \in 1..Len(functions)}
Eligible == {f \in CatalogNames : Some(f) # destinationFn}

PermissionKeys(obj) == {k \in DOMAIN obj : obj[k].Type = "AWS::Lambda::Permission"}
FilterKeys(obj) == {k \in DOMAIN obj : obj[k].Type = "AWS::Logs::SubscriptionFilter"}

\* the declarations of obj that subscribe the log group of catalog member f
FiltersOf(obj, f) ==
  {k \in FilterKeys(obj) :
     obj[k].Properties.LogGroupName = <<"/aws/lambda/">> \o getFunction(functions, f).name}

Occurrences(seq, x) == Cardinality({i \in 1..Len(seq) : seq[i] = x})

\* the stage the gate is documented to use: the CLI option if non-empty, else the provider's
GateStage ==
  IF options.stage # Undefined /\ options.stage[1] # EmptyString
  THEN options.stage[1]
  ELSE provider.stage

StageExcluded ==
  /\ conf.stages # Undefined
  /\ \A i \in 1..Len(conf.stages[1]) : conf.stages[1][i] # GateStage

\* the host's Resources namespace, empty when it does not exist yet
NamespaceOf(res) ==
  IF res = Undefined \/ res[1].Resources = Undefined
  THEN EmptyObj
  ELSE res[1].Resources[1]

----------------------------------------------------------------------------
(* C1 *)

\* C1: when destinationARN and destinationFn are both absent and the stage gate
\* lets the run through, the run ends with the configuration error, nothing is
\* produced and service.resources is exactly what it was (no namespace created).
C1_MissingDestinationThrows ==
  [][(pc = "ready" /\ arn = Undefined /\ destinationFn = Undefined /\ pc' # "skipped")
       => (pc' = "threw" /\ resources' = resources
           /\ resourceObj' = Undefined /\ targets' = Undefined)]_vars

C1_Witness ==
  /\ pc = "threw"
  /\ arn = Undefined /\ destinationFn = Undefined
  /\ resources = Undefined
  /\ Len(functions) > 0

----------------------------------------------------------------------------
(* C2 *)

C2_WitnessDistinct ==
  /\ Updated
  /\ destinationFn = Some(fnMinusB)
  /\ keys(functions) = <<fnA, fnMinusB, fnC>>
  /\ Cardinality(FilterKeys(Produced)) = 2

----------------------------------------------------------------------------
(* C3 *)

----------------------------------------------------------------------------
(* C4 *)

\* C4: a successful run produces exactly one AWS::Lambda::Permission
\* declaration, under LogForwardingLambdaPermission, whatever the catalog size;
\* every other key is a SubscriptionFilter key; an empty catalog yields the
\* Permission alone.
C4_ExactlyOnePermission ==
  Updated =>
     /\ PermissionKey \in DOMAIN Produced
     /\ PermissionKeys(Produced) = {PermissionKey}
     /\ DOMAIN Produced = {PermissionKey} \cup FilterKeys(Produced)
     /\ (functions = <<>> => DOMAIN Produced = {PermissionKey})

C4_Witness ==
  /\ Updated
  /\ Len(functions) = 3
  /\ Cardinality(FilterKeys(Produced)) = 3
  /\ PermissionKeys(Produced) = {PermissionKey}

C4_WitnessEmptyCatalog ==
  Updated /\ functions = <<>> /\ DOMAIN Produced = {PermissionKey}

----------------------------------------------------------------------------
(* C5 *)

\* C5: every SubscriptionFilter declaration depends on exactly
\* LogForwardingLambdaPermission and the log-group logical id of the target
\* whose log group it subscribes, and that Permission key is in the mapping.
C5_FilterDependsOn ==
  Updated =>
     \A k \in FilterKeys(Produced) :
        /\ PermissionKey \in DOMAIN Produced
        /\ \E i \in 1..Len(targets[1]) :
             LET f == targets[1][i] IN
             /\ k = SubscriptionFilterId(f)
             /\ Produced[k].Properties.LogGroupName
                  = <<"/aws/lambda/">> \o getFunction(functions, f).name
             /\ Produced[k].DependsOn
                  = <<PermissionKey, getNormalizedFunctionName(f) \o <<"LogGroup">> >>

C5_Witness ==
  /\ Updated
  /\ keys(functions) = <<fnMinusB, fnA>>
  /\ Cardinality(FilterKeys(Produced)) = 2
  /\ Produced[SubscriptionFilterId(fnMinusB)].DependsOn
       = <<PermissionKey, <<"F", "n", "D", "a", "s", "h", "B", "LogGroup">> >>

----------------------------------------------------------------------------
(* C6 *)

\* C6: with an in-service destination function the Permission's DependsOn
\* contains that function's Lambda logical id; with only an external ARN the
\* Permission has no DependsOn.
C6_PermissionDependsOnDestination ==
  Updated =>
     LET perm == Produced[PermissionKey] IN
     /\ Truthy(destinationFn) =>
          /\ "DependsOn" \in DOMAIN perm
          /\ \E i \in 1..Len(perm.DependsOn) :
               perm.DependsOn[i]
                 = getNormalizedFunctionName(destinationFn[1]) \o <<"LambdaFunction">>
     /\ (destinationFn = Undefined /\ arn # Undefined) => "DependsOn" \notin DOMAIN perm

C6_Witness ==
  /\ Updated
  /\ destinationFn = Some(fnMinusB)
  /\ Produced[PermissionKey].DependsOn
       = << <<"F", "n", "D", "a", "s", "h", "B", "LambdaFunction">> >>

C6_WitnessExternal ==
  /\ Updated
  /\ destinationFn = Undefined /\ arn = Some(ArnDest)
  /\ DOMAIN Produced[PermissionKey] = {"Type", "Properties"}

----------------------------------------------------------------------------
(* C7 *)

\* C7 as stated: after a successful validation the Permission's FunctionName
\* is the destination ARN whenever that is non-null, destinationFn otherwise,
\* and is never absent.
C7_FunctionNameResolved ==
  Updated =>
     LET name == Produced[PermissionKey].Properties.FunctionName IN
     /\ name = (IF arn # Undefined THEN arn ELSE destinationFn)
     /\ name # Undefined

----------------------------------------------------------------------------
(* C8 *)

\* C8 as stated: every SubscriptionFilter's DestinationArn is the resolved
\* destination that the Permission's FunctionName holds.
C8_FilterDestinationIsPermissionDestination ==
  Updated =>
     \A k \in FilterKeys(Produced) :
        Produced[k].Properties.DestinationArn
          = Produced[PermissionKey].Properties.FunctionName

----------------------------------------------------------------------------
(* C9 *)

\* C9: when a stages list is configured and the current stage is not in it,
\* the hook ends normally as skipped: nothing is enumerated or produced,
\* service.resources is untouched, and no validation error is raised even for
\* a configuration without any destination.
C9_ExcludedStageBypassesCore ==
  [][(pc = "ready" /\ StageExcluded /\ pc' # "ready")
       => (pc' = "skipped" /\ resources' = resources
           /\ resourceObj' = Undefined /\ targets' = Undefined)]_vars

C9_Witness ==
  /\ pc = "skipped"
  /\ options.stage = Some(prod) /\ conf.stages = Some(<<dev>>)
  /\ arn = Undefined /\ destinationFn = Undefined
  /\ resources = Undefined

----------------------------------------------------------------------------
(* C10 *)

\* C10: a successful run leaves in the host's Resources namespace its previous
\* content with every produced key set to the produced declaration and every
\* other key unchanged; a missing resources object or namespace counts as
\* empty, so the result is then exactly the produced mapping; the other
\* sections of service.resources are left alone.
C10_MergeIntoHost ==
  [][(pc = "ready" /\ pc' = "updated") =>
       LET prev == NamespaceOf(resources)
           new == resources'[1].Resources[1]
           obj == resourceObj'[1]
       IN /\ resources' # Undefined /\ resources'[1].Resources # Undefined
          /\ DOMAIN new = (DOMAIN prev) \cup (DOMAIN obj)
          /\ \A k \in DOMAIN obj : new[k] = obj[k]
          /\ \A k \in (DOMAIN prev) \ (DOMAIN obj) : new[k] = prev[k]
          /\ (resources = Undefined \/ resources[1].Resources = Undefined) => new = obj
          /\ resources # Undefined =>
               /\ DOMAIN resources'[1] = DOMAIN resources[1]
               /\ \A r \in (DOMAIN resources[1]) \ {"Resources"} :
                    resources'[1][r] = resources[1][r]]_vars

C10_Witness ==
  /\ Updated
  /\ DOMAIN resources[1] = {"Resources", "Outputs"}
  /\ <<"MyBucket">> \in DOMAIN resources[1].Resources[1]
  /\ SubscriptionFilterId(fnA) \in DOMAIN Produced
  /\ \A k \in DOMAIN Produced : resources[1].Resources[1][k] = Produced[k]

C10_WitnessInitialized ==
  /\ Updated
  /\ DOMAIN resources[1] = {"Resources"}
  /\ resources[1].Resources[1] = Produced

====
